---------------------------- MODULE Spec2Model ----------------------------
(***************************************************************************)
(* A model of the decker gateway: the per-connection session task          *)
(* (gateway/v1/connection.py), the Registry and its bus-consumer task      *)
(* (gateway/registry.py), and the session-limit row of the store           *)
(* (gateway/database.py).                                                  *)
(*                                                                         *)
(* Scheduling.  Everything runs on one asyncio event loop, so a task runs  *)
(* without interruption from one suspension to the next; an action of the  *)
(* model is such a run.  The store calls go through run_in_executor and    *)
(* run on pool threads: the read and the write of the session-limit row    *)
(* are separate actions.                                                   *)
(*                                                                         *)
(* Python attributes that are annotated but never assigned (session_id,    *)
(* user_id, floodgates_open before on_identify reaches them) are modelled  *)
(* by an "unset" value; reading one raises AttributeError.                 *)
(***************************************************************************)
EXTENDS Integers, Sequences, FiniteSets, TLC

(* ----------------------------- bounds --------------------------------- *)
\* connections accepted by on_connection
NConns == 2
\* client frames read over all connections
MaxFrames == 2
\* upstream messages polled by the bus consumer
MaxMsgs == 2
\* connections that the client closes or drops
MaxCloses == 1
\* events in all, polled or given to append_queue directly
MaxPending == 3

(* ------------------------ the store's contents ------------------------ *)
Conns == 1..NConns
Users == {"u1", "u2"}
Guilds == {"g1", "g2"}
\* Member rows: the guilds each user has joined (_get_joined_guild_ids)
JoinedGuilds == [u \in Users |-> IF u = "u1" THEN <<"g1", "g2">> ELSE <<"g1">>]
\* GatewaySessionLimit.remaining default
DefaultRemaining == 1000
\* no GatewaySessionLimit row (query.DoesNotExist)
NotFound == -1
\* the session-limit rows at start: u1 has one connection left in its
\* 12-hour window, u2 has no row yet
InitialRemaining == [u \in Users |-> IF u = "u1" THEN 1 ELSE NotFound]
\* Settings.status: the status each user prefers
SettingsStatus == [u \in Users |-> IF u = "u1" THEN "online" ELSE "invisible"]
\* the Presence rows at start
InitialPresence == [u \in Users |-> "online"]
\* v1Session._rate_limit
RateLimit == 60
\* a registry entry whose session is None
NIL == 0
\* an attribute that has not been assigned
Unset == "unset"

VARIABLES
    \* --- v1Session, one per connection ---
    pc,              \* where the connection's task (on_connection/run) stands
    compress,        \* self.compress
    close_code,      \* 0 while the socket is open, else the first close code
    sequence,        \* self._sequence
    identified,      \* self.identified
    user_id,         \* self.user_id
    guild_ids,       \* self.guild_ids
    session_id,      \* self.session_id (0: unset)
    floodgates_open, \* self.floodgates_open
    out,             \* the frames written to the socket, in order
    token,           \* identify.token of the IDENTIFY being handled
    gwsl_read,       \* remaining as read by _decrease_connection_count
    guild_idx,       \* next GUILD_CREATE of send_guilds
    drain_left,      \* iterations left of empty_queue's loop
    exc,             \* the exception propagating in run, "" if none
    after,           \* where disconnect's sleep returns to
    failed,          \* run ended by an exception
    \* --- Registry ---
    sessions,          \* Registry._sessions
    managed_guilds,    \* Registry._managed_guilds
    managed_guild_ids, \* Registry._managed_guild_ids
    queues,            \* Registry._queues
    kafka,             \* the _manage_kafka task: "running" or "dead"
    kq,                \* handler calls left for the message being handled
    next_sid,          \* the next value of _create_session_id
    \* --- store ---
    gwsl,            \* GatewaySessionLimit.remaining per user
    presence,        \* Presence.status per user
    \* --- environment budgets ---
    n_frames, n_msgs,
    \* --- history, read by the properties only ---
    dec_ok,          \* per user: _decrease_connection_count calls that returned True
    last,            \* the last handler call of the bus consumer, and its message
    frame            \* per connection: the last frame handle_events read

connVars == <<pc, compress, close_code, sequence, identified, user_id, guild_ids,
              session_id, floodgates_open, out, token, gwsl_read, guild_idx,
              drain_left, exc, after, failed>>
regVars == <<sessions, managed_guilds, managed_guild_ids, queues, kafka, kq, next_sid>>
vars == <<connVars, regVars, gwsl, presence, n_frames, n_msgs, dec_ok, last, frame>>

NoLast == [h |-> "none"]

Init ==
    /\ pc = [c \in Conns |-> "idle"]
    /\ compress = [c \in Conns |-> FALSE]
    /\ close_code = [c \in Conns |-> 0]
    /\ sequence = [c \in Conns |-> 0]
    /\ identified = [c \in Conns |-> FALSE]
    /\ user_id = [c \in Conns |-> Unset]
    /\ guild_ids = [c \in Conns |-> <<>>]
    /\ session_id = [c \in Conns |-> 0]
    /\ floodgates_open = [c \in Conns |-> Unset]
    /\ out = [c \in Conns |-> <<>>]
    /\ token = [c \in Conns |-> ""]
    /\ gwsl_read = [c \in Conns |-> 0]
    /\ guild_idx = [c \in Conns |-> 0]
    /\ drain_left = [c \in Conns |-> 0]
    /\ exc = [c \in Conns |-> ""]
    /\ after = [c \in Conns |-> ""]
    /\ failed = [c \in Conns |-> FALSE]
    /\ sessions = <<>>
    /\ managed_guilds = <<>>
    /\ managed_guild_ids = <<>>
    /\ queues = <<>>
    /\ kafka = "running"
    /\ kq = <<>>
    /\ next_sid = 1
    /\ gwsl = InitialRemaining
    /\ presence = InitialPresence
    /\ n_frames = 0
    /\ n_msgs = 0
    /\ dec_ok = [u \in Users |-> 0]
    /\ last = NoLast
    /\ frame = [c \in Conns |-> "none"]


(* ----------------------------- helpers -------------------------------- *)
Range(f) == {f[i] : i \in DOMAIN f}

RECURSIVE Flatten(_)
Flatten(ss) == IF ss = <<>> THEN <<>> ELSE Head(ss) \o Flatten(Tail(ss))

\* The part of the state a send or a handler of the Registry works on;
\* raised names the exception that ended it, "" if it returned.
World == [out |-> out, sequence |-> sequence, queues |-> queues, raised |-> ""]

(* --------------------------- v1Session.send --------------------------- *)
\* send with its counter advanced for every frame, with or without t and s.
send_counts_every_frame(W, c, data, op, add_essentials) ==
    LET seq == W.sequence[c] + 1
        new_data == IF add_essentials
                    THEN [op |-> op, t |-> data.name, s |-> seq, d |-> data.data,
                          ev |-> data]
                    ELSE [op |-> op, d |-> data]
        W1 == [W EXCEPT !.sequence[c] = seq]
    IN  IF compress[c] THEN [W1 EXCEPT !.raised = "TypeError"]
        ELSE IF close_code[c] # 0 THEN [W1 EXCEPT !.raised = "ConnectionClosed"]
        ELSE [W1 EXCEPT !.out[c] = Append(@, new_data)]

\* compress = True makes yield_chunks fail on its keyword (TypeError); a
\* closed socket makes _socket.send raise ConnectionClosed.  The counter is
\* advanced before either.  The frame is written to the transport before
\* _socket.send first suspends, so frames reach the socket in the order of
\* the calls.  Field ev is not on the wire: it records the Event sent.
send(W, c, data, op, add_essentials) ==
    LET seq == IF add_essentials THEN W.sequence[c] + 1 ELSE W.sequence[c]
        new_data == IF add_essentials
                    THEN [op |-> op, t |-> data.name, s |-> seq, d |-> data.data,
                          ev |-> data]
                    ELSE [op |-> op, d |-> data]
        W1 == [W EXCEPT !.sequence[c] = seq]
    IN  IF compress[c] THEN [W1 EXCEPT !.raised = "TypeError"]
        ELSE IF close_code[c] # 0 THEN [W1 EXCEPT !.raised = "ConnectionClosed"]
        ELSE [W1 EXCEPT !.out[c] = Append(@, new_data)]

(* ------------------------------ Registry ------------------------------ *)
append_queue(W, sid, event) ==
    LET qs == IF sid \in DOMAIN W.queues THEN W.queues ELSE W.queues @@ (sid :> <<>>)
    IN  [W EXCEPT !.queues = [qs EXCEPT ![sid] = Append(@, event)]]

\* The body of handle_guild_id_event's inner loop for one matching entry.
RouteGuildEntry(W, entry, event) ==
    LET session2 == entry.session
    IN  IF session2 = NIL \/ floodgates_open[session2] = Unset
        THEN [W EXCEPT !.raised = "AttributeError"]
        ELSE IF floodgates_open[session2] = "True"
        THEN send(W, session2, event, 0, TRUE)
        ELSE append_queue(W, session_id[session2], event)

RECURSIVE RouteGuildEntries(_, _, _)
RouteGuildEntries(W, entries, event) ==
    IF entries = <<>> \/ W.raised # "" THEN W
    ELSE RouteGuildEntries(RouteGuildEntry(W, Head(entries), event), Tail(entries), event)

\* itertools.product(guild['sessions'], self._sessions) filtered by
\* session['id'] == session_id, for every managed guild of the event's id.
GuildEntries(event) ==
    LET matches(x) == SelectSeq(sessions, LAMBDA e : e.id = x)
        perGuild(g) == Flatten([k \in 1..Len(g.sessions) |-> matches(g.sessions[k])])
    IN  Flatten([j \in 1..Len(managed_guilds) |->
                    IF managed_guilds[j].id = event.guild_id
                    THEN perGuild(managed_guilds[j]) ELSE <<>>])

\* handle_guild_id_event routing to every entry of the Registry, whatever
\* the guild.
handle_guild_id_event_to_all(W, event) == RouteGuildEntries(W, sessions, event)

handle_guild_id_event(W, event) == RouteGuildEntries(W, GuildEntries(event), event)

\* The first entry the loop of handle_user_id_event stops at: one whose
\* session is None (reading .user_id raises) or whose user_id matches
\* (deliver, then break).  0 if the loop runs to its end.
UserStop(event) ==
    LET hits == {i \in 1..Len(sessions) :
                    \/ sessions[i].session = NIL
                    \/ user_id[sessions[i].session] = event.user_id}
    IN  IF hits = {} THEN 0 ELSE CHOOSE i \in hits : \A j \in hits : i <= j

\* The body of handle_user_id_event's loop for an entry whose user matches.
RouteUserEntry(W, entry, event) ==
    IF floodgates_open[entry.session] = Unset
    THEN [W EXCEPT !.raised = "AttributeError"]
    ELSE IF floodgates_open[entry.session] = "True"
    THEN send(W, entry.session, event, 0, TRUE)
    ELSE append_queue(W, entry.id, event)

RECURSIVE RouteUserEntries(_, _, _)
RouteUserEntries(W, entries, event) ==
    IF entries = <<>> \/ W.raised # "" THEN W
    ELSE IF Head(entries).session = NIL
    THEN [W EXCEPT !.raised = "AttributeError"]
    ELSE IF user_id[Head(entries).session] = event.user_id
    THEN RouteUserEntries(RouteUserEntry(W, Head(entries), event), Tail(entries), event)
    ELSE RouteUserEntries(W, Tail(entries), event)

\* handle_user_id_event without its break: the loop goes on after a match.
handle_user_id_event_no_break(W, event) == RouteUserEntries(W, sessions, event)

handle_user_id_event(W, event) ==
    LET i == UserStop(event)
    IN  IF i = 0 THEN W
        ELSE IF sessions[i].session = NIL
        THEN [W EXCEPT !.raised = "AttributeError"]
        ELSE RouteUserEntry(W, sessions[i], event)

\* Event(name, data, ...) with the fields that are not None.
Has(event, field) == field \in DOMAIN event

\* _manage_kafka testing the addressing fields in the opposite order.
KafkaCalls_lowest_first(event) ==
    IF Has(event, "user_ids")
    THEN [i \in 1..Len(event.user_ids) |->
            [h |-> "user",
             event |-> [name |-> event.name, data |-> event.data,
                        user_id |-> event.user_ids[i]]]]
    ELSE IF Has(event, "user_id") THEN << [h |-> "user", event |-> event] >>
    ELSE IF Has(event, "guild_ids")
    THEN [i \in 1..Len(event.guild_ids) |->
            [h |-> "guild",
             event |-> [name |-> event.name, data |-> event.data,
                        guild_id |-> event.guild_ids[i]]]]
    ELSE IF Has(event, "guild_id") THEN << [h |-> "guild", event |-> event] >>
    ELSE <<>>

\* The handler calls _manage_kafka makes for one decoded message, in order.
KafkaCalls(event) ==
    IF Has(event, "guild_id") THEN << [h |-> "guild", event |-> event] >>
    ELSE IF Has(event, "guild_ids")
    THEN [i \in 1..Len(event.guild_ids) |->
            [h |-> "guild",
             event |-> [name |-> event.name, data |-> event.data,
                        guild_id |-> event.guild_ids[i]]]]
    ELSE IF Has(event, "user_id") THEN << [h |-> "user", event |-> event] >>
    ELSE IF Has(event, "user_ids")
    THEN [i \in 1..Len(event.user_ids) |->
            [h |-> "user",
             event |-> [name |-> event.name, data |-> event.data,
                        user_id |-> event.user_ids[i]]]]
    ELSE <<>>

\* BaseSession._equip
equip(c) ==
    /\ session_id' = [session_id EXCEPT ![c] = next_sid]
    /\ next_sid' = next_sid + 1
    /\ sessions' = Append(sessions, [id |-> next_sid, session |-> c])

\* A session object as an element of a managed guild's 'sessions' list; it is
\* never equal to a session id.
SessionObject(c) == 0 - c

\* BaseSession._equip_guilds: the value it would give _managed_guilds.  No
\* code of the repository calls it.
RECURSIVE equip_guilds(_, _, _)
equip_guilds(c, mg, gids) ==
    IF gids = <<>> THEN mg
    ELSE IF \E j \in 1..Len(mg) : mg[j].id = Head(gids)
    THEN equip_guilds(c, mg, Tail(gids))
    ELSE equip_guilds(c, Append(mg, [id |-> Head(gids), sessions |-> <<SessionObject(c)>>]),
                      Tail(gids))

\* Registry.disconnect up to its first suspension or exception: the entry
\* found first has its session set to None.
FirstEntry(sid) ==
    LET hits == {i \in 1..Len(sessions) : sessions[i].id = sid}
    IN  IF hits = {} THEN 0 ELSE CHOOSE i \in hits : \A j \in hits : i <= j

\* disconnect removing the entry it finds and leaving the queue.
MarkNone_removes(sid) == SelectSeq(sessions, LAMBDA e : e.id # sid)

MarkNone(sid) ==
    IF FirstEntry(sid) = 0 THEN sessions
    ELSE [sessions EXCEPT ![FirstEntry(sid)].session = NIL]

(* ------------------------ exceptions in run ---------------------------- *)
\* An exception e leaves code running in context ctx of v1Session.run: the
\* try body ("try": the except clauses see it), the except clause ("except":
\* finally runs, then run ends by it) or the finally clause ("finally").
Propagate(c, e, ctx) ==
    /\ exc' = [exc EXCEPT ![c] = e]
    /\ pc' = [pc EXCEPT ![c] = IF ctx = "try" THEN "exc"
                                ELSE IF ctx = "except" THEN "finally" ELSE "done"]
    /\ failed' = [failed EXCEPT ![c] = IF ctx = "try" THEN @ ELSE TRUE]

\* Where a call made in context ctx continues when it returns.
Resume(ctx) == IF ctx = "try" THEN "recv" ELSE IF ctx = "except" THEN "finally" ELSE "done"

\* _socket.close(code) with a later close replacing the code of the first.
socket_close_last_wins(c, code) ==
    close_code' = [close_code EXCEPT ![c] = code]

\* _socket.close(code): the client sees the first close only.
socket_close(c, code) ==
    close_code' = [close_code EXCEPT ![c] = IF @ = 0 THEN code ELSE @]

\* self._registry.disconnect(self.session_id, reconnectable), called in
\* context ctx, up to sleep(60) or the exception that ends it.
disconnect(c, reconnectable, ctx) ==
    IF session_id[c] = 0
    THEN /\ Propagate(c, "AttributeError", ctx)
         /\ UNCHANGED <<sessions, after>>
    ELSE /\ sessions' = MarkNone(session_id[c])
         /\ IF sessions = <<>>
            THEN Propagate(c, "UnboundLocalError", ctx) /\ UNCHANGED after
            ELSE IF reconnectable
            THEN /\ pc' = [pc EXCEPT ![c] = "sleep"]
                 /\ after' = [after EXCEPT ![c] = ctx]
                 /\ UNCHANGED <<exc, failed>>
            ELSE Propagate(c, "TypeError", ctx) /\ UNCHANGED after

\* Registry.disconnect after sleep(60): return if the entry is still None,
\* else go on to self._sessions.pop(session), which raises TypeError.
GraceTimeout(c) ==
    /\ pc[c] = "sleep"
    /\ LET i == FirstEntry(session_id[c])
       IN  IF i # 0 /\ sessions[i].session = NIL
           THEN /\ pc' = [pc EXCEPT ![c] = Resume(after[c])]
                /\ UNCHANGED <<exc, failed>>
           ELSE Propagate(c, "TypeError", after[c])
    /\ UNCHANGED <<compress, close_code, sequence, identified, user_id, guild_ids,
                   session_id, floodgates_open, out, token, gwsl_read, guild_idx,
                   drain_left, after, regVars, gwsl, n_frames, frame, n_msgs, dec_ok, presence, last>>

(* --------------------------- the connection ---------------------------- *)
\* on_connection: a v1Session is created; compress comes from the query.
\* Connections are numbered in the order they are accepted.
Connect(c, cmp) ==
    /\ pc[c] = "idle"
    /\ \A d \in Conns : d < c => pc[d] # "idle"
    /\ pc' = [pc EXCEPT ![c] = "hello"]
    /\ compress' = [compress EXCEPT ![c] = cmp]
    /\ UNCHANGED <<close_code, sequence, identified, user_id, guild_ids, session_id,
                   floodgates_open, out, token, gwsl_read, guild_idx, drain_left,
                   exc, after, failed, regVars, gwsl, n_frames, frame, n_msgs, dec_ok, presence, last>>

\* The client closes or drops the connection.
ClientClose(c) ==
    /\ pc[c] \notin {"idle", "done"}
    /\ close_code[c] = 0
    /\ Cardinality({d \in Conns : close_code[d] = 1000}) < MaxCloses
    /\ close_code' = [close_code EXCEPT ![c] = 1000]
    /\ UNCHANGED <<pc, compress, sequence, identified, user_id, guild_ids, session_id,
                   floodgates_open, out, token, gwsl_read, guild_idx, drain_left,
                   exc, after, failed, regVars, gwsl, n_frames, frame, n_msgs, dec_ok, presence, last>>

\* v1Session.hello
hello(c) ==
    /\ pc[c] = "hello"
    /\ LET W == send(World, c, [rate_limit |-> RateLimit], 1, FALSE)
       IN  /\ out' = W.out
           /\ sequence' = W.sequence
           /\ IF W.raised # ""
              THEN Propagate(c, W.raised, "try")
              ELSE pc' = [pc EXCEPT ![c] = "recv"] /\ UNCHANGED <<exc, failed>>
    /\ UNCHANGED <<compress, close_code, identified, user_id, guild_ids, session_id,
                   floodgates_open, token, gwsl_read, guild_idx, drain_left,
                   after, regVars, gwsl, n_frames, frame, n_msgs, dec_ok, presence, last>>

\* handle_events: the socket's iteration ends when the connection is closed.
RecvEnd(c) ==
    /\ pc[c] = "recv"
    /\ close_code[c] # 0
    /\ pc' = [pc EXCEPT ![c] = "finally"]
    /\ UNCHANGED <<compress, close_code, sequence, identified, user_id, guild_ids,
                   session_id, floodgates_open, out, token, gwsl_read, guild_idx,
                   drain_left, exc, after, failed, regVars, gwsl, n_frames, frame, n_msgs,
                   dec_ok, presence, last>>

\* What a client can send: a frame that does not decode, a frame with an
\* undefined op, and IDENTIFY (op 2) with a payload that validates or not
\* and a token that is a user's or invalid ("bad").
Frames ==
    { [kind |-> "garbage", valid |-> FALSE, token |-> "bad"],
      [kind |-> "badop", valid |-> FALSE, token |-> "bad"],
      [kind |-> "identify", valid |-> FALSE, token |-> "bad"] }
    \cup { [kind |-> "identify", valid |-> TRUE, token |-> t] : t \in Users \cup {"bad"} }

\* handle_events on one frame, and on_identify up to validate_token.
handle_events(c, f) ==
    /\ pc[c] = "recv"
    /\ close_code[c] = 0
    /\ n_frames < MaxFrames
    /\ n_frames' = n_frames + 1
    /\ frame' = [frame EXCEPT ![c] = IF f.kind = "identify" /\ ~f.valid
                                     THEN "invalid" ELSE f.kind]
    /\ IF f.kind = "garbage"
       THEN socket_close(c, 4002) /\ disconnect(c, FALSE, "try") /\ UNCHANGED token
       ELSE IF f.kind = "badop"
       THEN socket_close(c, 4003) /\ disconnect(c, FALSE, "try") /\ UNCHANGED token
       ELSE IF identified[c]
       THEN socket_close(c, 4007) /\ disconnect(c, TRUE, "try") /\ UNCHANGED token
       ELSE IF ~f.valid
       THEN socket_close(c, 4004) /\ disconnect(c, FALSE, "try") /\ UNCHANGED token
       ELSE /\ token' = [token EXCEPT ![c] = f.token]
            /\ pc' = [pc EXCEPT ![c] = "validate_token"]
            /\ UNCHANGED <<close_code, sessions, exc, after, failed>>
    /\ UNCHANGED <<compress, sequence, identified, user_id, guild_ids, session_id,
                   floodgates_open, out, gwsl_read, guild_idx, drain_left,
                   managed_guilds, managed_guild_ids, queues, kafka, kq, next_sid,
                   gwsl, n_msgs, dec_ok, presence, last>>

\* validate_token: on an invalid token _validate_token calls
\* asyncio.create_task on the pool thread, which has no running loop
\* (RuntimeError); on a valid one on_identify sets self.user_id.
validate_token(c) ==
    /\ pc[c] = "validate_token"
    /\ IF token[c] \notin Users
       THEN Propagate(c, "RuntimeError", "try") /\ UNCHANGED user_id
       ELSE /\ user_id' = [user_id EXCEPT ![c] = token[c]]
            /\ pc' = [pc EXCEPT ![c] = "quota_read"]
            /\ UNCHANGED <<exc, failed>>
    /\ UNCHANGED <<compress, close_code, sequence, identified, guild_ids, session_id,
                   floodgates_open, out, token, gwsl_read, guild_idx, drain_left,
                   after, regVars, gwsl, n_frames, frame, n_msgs, dec_ok, presence, last>>

\* _decrease_connection_count on the pool thread, up to its return False
\* or its update: the row is read (created with the default when missing)
\* and checked.  False makes on_identify close with 4006.
decrease_connection_count_read(c) ==
    /\ pc[c] = "quota_read"
    /\ LET u == user_id[c]
           remaining == IF gwsl[u] = NotFound THEN DefaultRemaining ELSE gwsl[u]
       IN  /\ gwsl' = [gwsl EXCEPT ![u] = remaining]
           /\ IF remaining - 1 < 0
              THEN /\ socket_close(c, 4006)
                   /\ disconnect(c, FALSE, "try")
                   /\ UNCHANGED gwsl_read
              ELSE /\ gwsl_read' = [gwsl_read EXCEPT ![c] = remaining]
                   /\ pc' = [pc EXCEPT ![c] = "quota_update"]
                   /\ UNCHANGED <<close_code, sessions, exc, after, failed>>
    /\ UNCHANGED <<compress, sequence, identified, user_id, guild_ids, session_id,
                   floodgates_open, out, token, guild_idx, drain_left,
                   managed_guilds, managed_guild_ids, queues, kafka, kq, next_sid,
                   n_frames, frame, n_msgs, dec_ok, presence, last>>

\* gwsl.update(remaining=gwsl.remaining - 1) with the value read before,
\* and return True.
decrease_connection_count_update(c) ==
    /\ pc[c] = "quota_update"
    /\ gwsl' = [gwsl EXCEPT ![user_id[c]] = gwsl_read[c] - 1]
    /\ dec_ok' = [dec_ok EXCEPT ![user_id[c]] = @ + 1]
    /\ pc' = [pc EXCEPT ![c] = "send_ready"]
    /\ UNCHANGED <<compress, close_code, sequence, identified, user_id, guild_ids,
                   session_id, floodgates_open, out, token, gwsl_read, guild_idx,
                   drain_left, exc, after, failed, regVars, presence, n_frames, frame,
                   n_msgs, last>>

\* get_joined_guild_ids, then send_ready from _equip on: the session is
\* appended to the Registry and READY is sent.
send_ready(c) ==
    /\ pc[c] = "send_ready"
    /\ guild_ids' = [guild_ids EXCEPT ![c] = JoinedGuilds[user_id[c]]]
    /\ equip(c)
    /\ LET W == send(World, c, [name |-> "READY", data |-> guild_ids'[c]], 0, TRUE)
       IN  /\ out' = W.out
           /\ sequence' = W.sequence
           /\ IF W.raised # ""
              THEN Propagate(c, W.raised, "try") /\ UNCHANGED guild_idx
              ELSE /\ pc' = [pc EXCEPT ![c] = "send_guilds"]
                   /\ guild_idx' = [guild_idx EXCEPT ![c] = 1]
                   /\ UNCHANGED <<exc, failed>>
    /\ UNCHANGED <<compress, close_code, identified, user_id, floodgates_open, token,
                   gwsl_read, drain_left, after, managed_guilds, managed_guild_ids,
                   queues, kafka, kq, gwsl, n_frames, frame, n_msgs, dec_ok, presence, last>>

\* send_guilds sending GUILD_CREATE for the first guild only.
send_guilds_first_only(c) ==
    /\ pc[c] = "send_guilds"
    /\ LET g == guild_ids[c][guild_idx[c]]
           W == send(World, c, [name |-> "GUILD_CREATE", data |-> g], 0, TRUE)
       IN  /\ out' = W.out
           /\ sequence' = W.sequence
           /\ IF W.raised # ""
              THEN Propagate(c, W.raised, "try") /\ UNCHANGED guild_idx
              ELSE /\ pc' = [pc EXCEPT ![c] = "empty_queue"]
                   /\ guild_idx' = [guild_idx EXCEPT ![c] = @ + 1]
                   /\ UNCHANGED <<exc, failed>>
    /\ UNCHANGED <<compress, close_code, identified, user_id, guild_ids, session_id,
                   floodgates_open, token, gwsl_read, drain_left, after, regVars,
                   gwsl, n_frames, frame, n_msgs, dec_ok, presence, last>>

\* send_guilds: one of the gathered sends of GUILD_CREATE.
send_guilds(c) ==
    /\ pc[c] = "send_guilds"
    /\ LET g == guild_ids[c][guild_idx[c]]
           W == send(World, c, [name |-> "GUILD_CREATE", data |-> g], 0, TRUE)
       IN  /\ out' = W.out
           /\ sequence' = W.sequence
           /\ IF W.raised # ""
              THEN Propagate(c, W.raised, "try") /\ UNCHANGED guild_idx
              ELSE /\ pc' = [pc EXCEPT ![c] = IF guild_idx[c] = Len(guild_ids[c])
                                              THEN "empty_queue" ELSE "send_guilds"]
                   /\ guild_idx' = [guild_idx EXCEPT ![c] = @ + 1]
                   /\ UNCHANGED <<exc, failed>>
    /\ UNCHANGED <<compress, close_code, identified, user_id, guild_ids, session_id,
                   floodgates_open, token, gwsl_read, drain_left, after, regVars,
                   gwsl, n_frames, frame, n_msgs, dec_ok, presence, last>>

\* The number of iterations of empty_queue's loop for a queue of n events.
DrainCount(n) == n - 1

\* empty_queue up to its loop, and on_identify's floodgates_open = True
\* when the loop has nothing to do.
empty_queue(c) ==
    /\ pc[c] = "empty_queue"
    /\ LET sid == session_id[c]
           n == IF sid \in DOMAIN queues THEN Len(queues[sid]) ELSE 0
       IN  IF n = 0 \/ DrainCount(n) <= 0
           THEN /\ floodgates_open' = [floodgates_open EXCEPT ![c] = "True"]
                /\ pc' = [pc EXCEPT ![c] = "recv"]
                /\ UNCHANGED drain_left
           ELSE /\ drain_left' = [drain_left EXCEPT ![c] = DrainCount(n)]
                /\ pc' = [pc EXCEPT ![c] = "drain"]
                /\ UNCHANGED floodgates_open
    /\ UNCHANGED <<compress, close_code, sequence, identified, user_id, guild_ids,
                   session_id, out, token, gwsl_read, guild_idx, exc, after, failed,
                   regVars, gwsl, n_frames, frame, n_msgs, dec_ok, presence, last>>

\* One iteration of empty_queue's loop: queue.get(), then send; after the
\* last one on_identify sets floodgates_open = True.
empty_queue_step(c) ==
    /\ pc[c] = "drain"
    /\ session_id[c] \in DOMAIN queues
    /\ queues[session_id[c]] # <<>>
    /\ LET sid == session_id[c]
           W == send(World, c, Head(queues[sid]), 0, TRUE)
       IN  /\ queues' = [queues EXCEPT ![sid] = Tail(@)]
           /\ out' = W.out
           /\ sequence' = W.sequence
           /\ IF W.raised # ""
              THEN Propagate(c, W.raised, "try") /\ UNCHANGED <<drain_left, floodgates_open>>
              ELSE /\ drain_left' = [drain_left EXCEPT ![c] = @ - 1]
                   /\ IF drain_left[c] = 1
                      THEN /\ floodgates_open' = [floodgates_open EXCEPT ![c] = "True"]
                           /\ pc' = [pc EXCEPT ![c] = "recv"]
                      ELSE UNCHANGED <<floodgates_open, pc>>
                   /\ UNCHANGED <<exc, failed>>
    /\ UNCHANGED <<compress, close_code, identified, user_id, guild_ids, session_id,
                   token, gwsl_read, guild_idx, after, sessions, managed_guilds,
                   managed_guild_ids, kafka, kq, next_sid, gwsl, n_frames, frame, n_msgs,
                   dec_ok, presence, last>>

\* run's except clauses: ConnectionClosed is passed over, anything else
\* makes run call close(4000, ..., True).
run_except(c) ==
    /\ pc[c] = "exc"
    /\ IF exc[c] = "ConnectionClosed"
       THEN /\ pc' = [pc EXCEPT ![c] = "finally"]
            /\ UNCHANGED <<close_code, sessions, exc, after, failed>>
       ELSE socket_close(c, 4000) /\ disconnect(c, TRUE, "except")
    /\ UNCHANGED <<compress, sequence, identified, user_id, guild_ids, session_id,
                   floodgates_open, out, token, gwsl_read, guild_idx, drain_left,
                   managed_guilds, managed_guild_ids, queues, kafka, kq, next_sid,
                   gwsl, n_frames, frame, n_msgs, dec_ok, presence, last>>

\* _delete_presence: the user's presence becomes invisible, unless the
\* status the user prefers is invisible.
delete_presence(c) ==
    presence' = IF SettingsStatus[user_id[c]] = "invisible" THEN presence
                ELSE [presence EXCEPT ![user_id[c]] = "invisible"]

\* run's finally clause.
run_finally(c) ==
    /\ pc[c] = "finally"
    /\ IF identified[c]
       THEN delete_presence(c) /\ disconnect(c, TRUE, "finally")
       ELSE /\ pc' = [pc EXCEPT ![c] = "done"]
            /\ UNCHANGED <<presence, sessions, exc, after, failed>>
    /\ UNCHANGED <<compress, close_code, sequence, identified, user_id, guild_ids,
                   session_id, floodgates_open, out, token, gwsl_read, guild_idx,
                   drain_left, managed_guilds, managed_guild_ids, queues, kafka, kq,
                   next_sid, gwsl, n_frames, frame, n_msgs, dec_ok, last>>

(* --------------------------- the bus consumer -------------------------- *)
\* The upstream messages: an Event carries the fields that are not None,
\* one addressing field or several.  data stands for the payload and tells
\* the messages apart.
Messages(n) ==
    { [name |-> "EVENT", data |-> n, guild_id |-> g] : g \in Guilds }
    \cup { [name |-> "EVENT", data |-> n, guild_ids |-> <<"g1", "g2">>] }
    \cup { [name |-> "EVENT", data |-> n, user_id |-> u] : u \in Users }
    \cup { [name |-> "EVENT", data |-> n, user_ids |-> <<"u1", "u2">>] }
    \cup { [name |-> "EVENT", data |-> n, guild_id |-> "g2", guild_ids |-> <<"g1">>,
            user_id |-> "u2", user_ids |-> <<"u1">>],
           [name |-> "EVENT", data |-> n, guild_ids |-> <<"g2">>, user_id |-> "u2"],
           [name |-> "EVENT", data |-> n, user_id |-> "u1", user_ids |-> <<"u2">>] }

\* The sessions that are in the Registry, have opened their floodgates and
\* whose socket is open.
Live == {c \in Conns : /\ \E i \in 1..Len(sessions) : sessions[i].session = c
                       /\ floodgates_open[c] = "True"
                       /\ close_code[c] = 0}

\* One handler call of _manage_kafka for message m; rest are the calls left
\* for the message.  An exception in the handler ends the task.
HandleCall(call, rest, m) ==
    LET W == IF call.h = "guild" THEN handle_guild_id_event(World, call.event)
             ELSE handle_user_id_event(World, call.event)
    IN  /\ out' = W.out
        /\ sequence' = W.sequence
        /\ queues' = W.queues
        /\ kafka' = IF W.raised # "" THEN "dead" ELSE kafka
        /\ kq' = IF W.raised # "" THEN <<>> ELSE rest
        /\ last' = [h |-> call.h, event |-> call.event, raised |-> W.raised,
                    live |-> Live, msg |-> m]

\* _manage_kafka: a message is polled and decoded, and the first handler
\* call for it is made.  The Registry, and with it this task, is created by
\* the first v1Session.
manage_kafka(m) ==
    /\ kafka = "running"
    /\ kq = <<>>
    /\ \E c \in Conns : pc[c] # "idle"
    /\ n_msgs < MaxMsgs
    /\ m \in Messages(n_msgs + 1)
    /\ n_msgs' = n_msgs + 1
    /\ IF KafkaCalls(m) = <<>>
       THEN UNCHANGED <<out, sequence, queues, kafka, kq, last>>
       ELSE HandleCall(Head(KafkaCalls(m)), Tail(KafkaCalls(m)), m)
    /\ UNCHANGED <<pc, compress, close_code, identified, user_id, guild_ids,
                   session_id, floodgates_open, token, gwsl_read, guild_idx,
                   drain_left, exc, after, failed, sessions, managed_guilds,
                   managed_guild_ids, next_sid, gwsl, n_frames, frame, dec_ok, presence>>

\* _manage_kafka: the next handler call for a message with a plural
\* addressing field.
manage_kafka_next ==
    /\ kafka = "running"
    /\ kq # <<>>
    /\ HandleCall(Head(kq), Tail(kq), last.msg)
    /\ UNCHANGED <<pc, compress, close_code, identified, user_id, guild_ids,
                   session_id, floodgates_open, token, gwsl_read, guild_idx,
                   drain_left, exc, after, failed, sessions, managed_guilds,
                   managed_guild_ids, next_sid, gwsl, n_frames, frame, n_msgs, dec_ok, presence>>

(* --------------------------- specifications ---------------------------- *)
\* empty_queue_step is left out of Next: no queue is ever filled (see
\* QueuesStayEmpty), so the loop of empty_queue is never entered.
Next ==
    \/ \E c \in Conns, cmp \in BOOLEAN : Connect(c, cmp)
    \/ \E c \in Conns : ClientClose(c)
    \/ \E c \in Conns : hello(c)
    \/ \E c \in Conns : RecvEnd(c)
    \/ \E c \in Conns, f \in Frames : handle_events(c, f)
    \/ \E c \in Conns : validate_token(c)
    \/ \E c \in Conns : decrease_connection_count_read(c)
    \/ \E c \in Conns : decrease_connection_count_update(c)
    \/ \E c \in Conns : send_ready(c)
    \/ \E c \in Conns : send_guilds(c)
    \/ \E c \in Conns : empty_queue(c)
    \/ \E c \in Conns : run_except(c)
    \/ \E c \in Conns : run_finally(c)
    \/ \E c \in Conns : GraceTimeout(c)
    \/ \E m \in Messages(n_msgs + 1) : manage_kafka(m)
    \/ manage_kafka_next

Spec == Init /\ [][Next]_vars

\* Registry.append_queue called for a session that is in the Registry and
\* has not opened its floodgates, with an event addressed to its user.
AppendPending(c) ==
    /\ \E i \in 1..Len(sessions) : sessions[i].session = c
    /\ floodgates_open[c] # "True"
    /\ n_msgs < MaxPending
    /\ n_msgs' = n_msgs + 1
    /\ queues' = append_queue(World, session_id[c],
                              [name |-> "EVENT", data |-> n_msgs + 1,
                               user_id |-> user_id[c]]).queues
    /\ UNCHANGED <<connVars, sessions, managed_guilds, managed_guild_ids, kafka, kq,
                   next_sid, gwsl, n_frames, frame, dec_ok, presence, last>>

NextQueue ==
    \/ Next
    \/ \E c \in Conns : AppendPending(c)
    \/ \E c \in Conns : empty_queue_step(c)

\* The program with append_queue also called directly: the queues get
\* filled, and empty_queue runs on them.
SpecQueue == Init /\ [][NextQueue]_vars

\* Under Spec no pending queue is ever created.
QueuesStayEmpty == DOMAIN queues = {} /\ \A c \in Conns : pc[c] # "drain"

(* ------------------------------ properties ----------------------------- *)
InRegistry(c) == \E i \in 1..Len(sessions) : sessions[i].session = c

\* on_identify has bound the session and is still sending its snapshot.
Loading(c) ==
    /\ InRegistry(c)
    /\ pc[c] \in {"send_guilds", "empty_queue", "drain"}
    /\ floodgates_open[c] # "True"
    /\ close_code[c] = 0

\* The session's entry is None and its disconnect is in sleep(60).
InGrace(c) ==
    /\ pc[c] = "sleep"
    /\ FirstEntry(session_id[c]) # 0
    /\ sessions[FirstEntry(session_id[c])].session = NIL

\* The handler call is addressed to the session.
Addressed(c, call) ==
    \/ call.h = "user" /\ call.event.user_id = user_id[c]
    \/ call.h = "guild" /\ call.event.guild_id \in Range(guild_ids[c])

\* The step is a handler call of the bus consumer; last' describes it.
HandlerCalled == last' # last

QueueOf(qs, sid) == IF sid \in DOMAIN qs THEN qs[sid] ELSE <<>>

EventFrames(c) == SelectSeq(out[c], LAMBDA fr : fr.op = 0)

\* C1: an event routed to a session that is bound but has not opened its
\* floodgates is appended to pending[session_id]; it is not sent, not
\* dropped, and routing it does not fail.
C1_LoadingEventIsQueued ==
    [][HandlerCalled =>
         \A c \in Conns :
            (Loading(c) /\ Addressed(c, last')) =>
                /\ last'.raised = ""
                /\ out'[c] = out[c]
                /\ QueueOf(queues', session_id[c])
                     = Append(QueueOf(queues, session_id[c]), last'.event)]_vars

\* The EVENT frames of a connection carry their payloads in the order the
\* messages came from upstream.
InArrivalOrder(c) ==
    \A i, j \in 1..Len(out[c]) :
        (i < j /\ out[c][i].op = 0 /\ out[c][j].op = 0
         /\ out[c][i].t = "EVENT" /\ out[c][j].t = "EVENT") => out[c][i].d < out[c][j].d

InGuildIndex(g, sid) ==
    \E j \in 1..Len(managed_guilds) :
        managed_guilds[j].id = g /\ sid \in Range(managed_guilds[j].sessions)

\* C3: for every session bound by a successful IDENTIFY and every guild of
\* its guild_ids, the guild index entry of that guild contains its session_id.
C3_GuildIndexComplete ==
    \A c \in Conns :
        (InRegistry(c) /\ floodgates_open[c] = "True") =>
            \A g \in Range(guild_ids[c]) : InGuildIndex(g, session_id[c])

\* C4: on every connection the event frames (op 0) carry s = 1, 2, 3, ... in
\* the order they reach the socket; a frame of another op carries no t and no
\* s and takes no sequence number.
C4_SequenceContiguous ==
    \A c \in Conns :
        /\ \A k \in 1..Len(EventFrames(c)) : EventFrames(c)[k].s = k
        /\ \A i \in 1..Len(out[c]) :
              out[c][i].op # 0 => DOMAIN out[c][i] \cap {"t", "s"} = {}

\* C4 witness: a connection has received HELLO, then READY, two GUILD_CREATE
\* and a routed event.
C4_Witness ==
    \E c \in Conns :
        /\ Len(out[c]) >= 5
        /\ out[c][1].op = 1
        /\ \E i \in 1..Len(out[c]) : out[c][i].op = 0 /\ out[c][i].t = "EVENT"

\* C5: no event addressed with guild_id = g is sent to, or enqueued for, a
\* session whose guild_ids does not contain g.
C5_GuildEventsOnlyToMembers ==
    [][/\ \A c \in Conns :
            \A k \in (Len(out[c]) + 1)..Len(out'[c]) :
                (out'[c][k].op = 0 /\ Has(out'[c][k].ev, "guild_id")) =>
                    out'[c][k].ev.guild_id \in Range(guild_ids[c])
       /\ \A sid \in DOMAIN queues' :
            \A k \in (Len(QueueOf(queues, sid)) + 1)..Len(queues'[sid]) :
                Has(queues'[sid][k], "guild_id") =>
                    \E c \in Conns : /\ session_id[c] = sid
                                     /\ queues'[sid][k].guild_id \in Range(guild_ids[c])]_vars

\* C5 witness: a guild event was handled while a session that is not a
\* member of the guild, and one that is, were live.
C5_Witness ==
    /\ last.h = "guild"
    /\ last.raised = ""
    /\ \E c \in last.live : last.event.guild_id \notin Range(guild_ids[c])
    /\ \E c \in last.live : last.event.guild_id \in Range(guild_ids[c])

RemoveEntry(ss, sid) == SelectSeq(ss, LAMBDA e : e.id # sid)
RemoveKey(qs, sid) == [k \in DOMAIN qs \ {sid} |-> qs[k]]

\* C6: disconnect(session_id, reconnectable=True) sets the entry's session to
\* NIL and keeps the entry; when the 60 seconds are over and the entry is
\* still NIL, the entry is removed and pending[session_id] is dropped.
C6_GraceThenRemoved ==
    [][\A c \in Conns :
          /\ (pc[c] # "sleep" /\ pc'[c] = "sleep") =>
                /\ FirstEntry(session_id[c]) # 0
                /\ sessions' = [sessions EXCEPT ![FirstEntry(session_id[c])].session = NIL]
          /\ (InGrace(c) /\ pc'[c] # "sleep") =>
                /\ sessions' = RemoveEntry(sessions, session_id[c])
                /\ queues' = RemoveKey(queues, session_id[c])]_vars

NonResumable == {4002, 4003, 4004, 4005, 4006}

\* C7: disconnect(session_id, reconnectable=False) on a bound session removes
\* its entry at once and drops pending[session_id]; no other entry or queue
\* changes.
C7_RemovedAtOnce ==
    [][\A c \in Conns :
          (close_code[c] = 0 /\ close_code'[c] \in NonResumable /\ session_id[c] # 0) =>
              /\ sessions' = RemoveEntry(sessions, session_id[c])
              /\ queues' = RemoveKey(queues, session_id[c])]_vars

\* C8: while a session's entry is in resume-grace, every event routed to the
\* session is appended to pending[session_id], so that after k such events
\* the queue holds these k events in arrival order.
C8_GraceEventIsQueued ==
    [][HandlerCalled =>
         \A c \in Conns :
            (InGrace(c) /\ Addressed(c, last')) =>
                /\ last'.raised = ""
                /\ QueueOf(queues', session_id[c])
                     = Append(QueueOf(queues, session_id[c]), last'.event)]_vars

\* What a user's session-limit row allowed at the start.
InitialQuota(u) ==
    IF InitialRemaining[u] = NotFound THEN DefaultRemaining ELSE InitialRemaining[u]

\* C9: the quota decrement is atomic: no more IDENTIFYs of a user succeed
\* than the user had connections remaining, and remaining has gone down by
\* at least the number of decrements that succeeded.
C9_QuotaAtomic ==
    \A u \in Users :
        /\ dec_ok[u] <= InitialQuota(u)
        /\ gwsl[u] # NotFound => gwsl[u] <= InitialQuota(u) - dec_ok[u]

EventFrame(c, event) ==
    [op |-> 0, t |-> event.name, s |-> sequence[c] + 1, d |-> event.data, ev |-> event]

\* C11: an event addressed with user_id = u is sent to every session of the
\* Registry whose user_id is u and whose floodgates are open, one copy on
\* each connection of the user, not only on the first.  Stated for the
\* handler calls that return.
C11_UserEventToEverySession ==
    [][(HandlerCalled /\ last'.h = "user" /\ last'.raised = "") =>
          \A c \in Live :
              user_id[c] = last'.event.user_id =>
                  out'[c] = Append(out[c], EventFrame(c, last'.event))]_vars

\* The handler call is one of the per-guild copies made for a message that
\* carries guild_ids: calls for the message are still to come, or were.
PerGuildCopy == last'.h = "guild" /\ (kq # <<>> \/ kq' # <<>>)

\* C12: each per-guild copy of an event carrying guild_ids = [g1, ..., gn] is
\* sent once to every bound session that is a member of its guild, and to no
\* session that is not.
C12_GuildIdsFanOut ==
    [][(HandlerCalled /\ PerGuildCopy) =>
          \A c \in Live :
              IF last'.event.guild_id \in Range(guild_ids[c])
              THEN out'[c] = Append(out[c], EventFrame(c, last'.event))
              ELSE out'[c] = out[c]]_vars

AddressFields == <<"guild_id", "guild_ids", "user_id", "user_ids">>

\* The addressing field of highest priority that the message has set.
TopField(m) ==
    LET set == {i \in 1..Len(AddressFields) : Has(m, AddressFields[i])}
    IN  AddressFields[CHOOSE i \in set : \A j \in set : i <= j]

\* The session is one that the message's field of highest priority names.
AddressedByTop(c, m) ==
    LET top == TopField(m)
    IN  IF top = "guild_id" THEN m.guild_id \in Range(guild_ids[c])
        ELSE IF top = "guild_ids"
        THEN \E g \in Range(m.guild_ids) : g \in Range(guild_ids[c])
        ELSE IF top = "user_id" THEN user_id[c] = m.user_id
        ELSE user_id[c] \in Range(m.user_ids)

\* C13: a message with several addressing fields set is routed by the one of
\* highest priority (guild_id > guild_ids > user_id > user_ids) only: every
\* handler call made for it is for that field, and nothing is sent to, or
\* enqueued for, a session that only a field of lower priority names.
C13_RoutedByTopField ==
    [][HandlerCalled =>
          /\ last'.h = IF TopField(last'.msg) \in {"guild_id", "guild_ids"}
                       THEN "guild" ELSE "user"
          /\ TopField(last'.event) = IF last'.h = "guild" THEN "guild_id" ELSE "user_id"
          /\ \A c \in Conns :
                (\/ out'[c] # out[c]
                 \/ QueueOf(queues', session_id[c]) # QueueOf(queues, session_id[c]))
                    => AddressedByTop(c, last'.msg)]_vars

\* C13 witness: a message with user_id and user_ids set was routed; the
\* session of the user_id has the event as its last frame, and a session of
\* a user of user_ids, with its floodgates open, has no frame of it.
C13_Witness ==
    /\ last.h = "user"
    /\ last.raised = ""
    /\ Has(last.msg, "user_id") /\ Has(last.msg, "user_ids")
    /\ \E c \in Conns :
          /\ user_id[c] = last.msg.user_id
          /\ out[c] # <<>>
          /\ out[c][Len(out[c])].op = 0
          /\ out[c][Len(out[c])].ev = last.msg
    /\ \E c \in last.live :
          /\ user_id[c] \in Range(last.msg.user_ids)
          /\ \A k \in 1..Len(out[c]) : out[c][k].op = 0 => out[c][k].ev # last.msg

IsFrame(fr, t) == fr.op = 0 /\ fr.t = t

\* The index of the last READY frame of the connection, 0 if there is none.
LastReady(c) ==
    LET rs == {i \in 1..Len(out[c]) : IsFrame(out[c][i], "READY")}
    IN  IF rs = {} THEN 0 ELSE CHOOSE i \in rs : \A j \in rs : j <= i

\* The guilds of the GUILD_CREATE frames sent after the last READY, in order.
GuildsAfterReady(c) ==
    LET tail == SubSeq(out[c], LastReady(c) + 1, Len(out[c]))
        gcs == SelectSeq(tail, LAMBDA fr : IsFrame(fr, "GUILD_CREATE"))
    IN  [k \in 1..Len(gcs) |-> gcs[k].d]

\* on_identify has sent its snapshot: it is in empty_queue, or has returned.
AfterSnapshot(c) ==
    \/ pc[c] \in {"empty_queue", "drain"}
    \/ pc[c] = "recv" /\ floodgates_open[c] = "True"

\* The guild a dispatched event targets: the one it is addressed to; an
\* event addressed to a user targets none.
TargetGuilds(event) == IF Has(event, "guild_id") THEN {event.guild_id} ELSE {}

\* C14: on every connection HELLO is the first frame; a READY precedes every
\* GUILD_CREATE; once on_identify has sent its snapshot for a user with N
\* guilds, N GUILD_CREATE frames follow the READY, one per guild; and the
\* GUILD_CREATE of a guild precedes every dispatched event that targets it.
C14_OutboundOrder ==
    \A c \in Conns :
        /\ out[c] # <<>> => out[c][1].op = 1
        /\ \A j \in 1..Len(out[c]) :
              IsFrame(out[c][j], "GUILD_CREATE") =>
                  \E i \in 1..(j - 1) : IsFrame(out[c][i], "READY")
        /\ AfterSnapshot(c) =>
              /\ LastReady(c) # 0
              /\ GuildsAfterReady(c) = guild_ids[c]
        /\ \A j \in 1..Len(out[c]) :
              IsFrame(out[c][j], "EVENT") =>
                  \A g \in TargetGuilds(out[c][j].ev) :
                      \E i \in 1..(j - 1) :
                          IsFrame(out[c][i], "GUILD_CREATE") /\ out[c][i].d = g

\* C14 witness: a connection of a user with two guilds has HELLO, READY, both
\* GUILD_CREATE frames and then a dispatched event, and its floodgates are open.
C14_Witness ==
    \E c \in Conns :
        /\ floodgates_open[c] = "True"
        /\ Len(guild_ids[c]) = 2
        /\ Len(out[c]) = 5
        /\ out[c][1].op = 1
        /\ IsFrame(out[c][2], "READY")
        /\ IsFrame(out[c][3], "GUILD_CREATE") /\ IsFrame(out[c][4], "GUILD_CREATE")
        /\ IsFrame(out[c][5], "EVENT")

Identified(c) == floodgates_open[c] = "True"

\* C17: an IDENTIFY on a connection that has completed a successful IDENTIFY
\* closes it with 4007 and runs nothing of on_identify again: such a
\* connection never enters token validation.
C17_SecondIdentifyRejected ==
    [][\A c \in Conns :
          (pc[c] = "recv" /\ Identified(c)) => pc'[c] # "validate_token"]_vars

\* C18: an entry of the Registry's sessions points at a live session or is
\* NIL: no entry points at a session whose connection has ended.
C18_NoEntryForEndedSession ==
    \A i \in 1..Len(sessions) :
        sessions[i].session # NIL => pc[sessions[i].session] # "done"

\* C19: once a session's user_id is set it never changes, whatever frames
\* the client sends.
C19_UserIdImmutable ==
    [][\A c \in Conns : user_id[c] # Unset => user_id'[c] = user_id[c]]_vars

\* C20: an IDENTIFY that fails closes the connection with the code of its
\* failure: the server closes a connection whose IDENTIFY carried an invalid
\* token with 4005; and a connection closed with 4004, 4005 or 4006 that was
\* never bound has no READY or GUILD_CREATE frame and no Registry entry.
C20_IdentifyFailureCodes ==
    \A c \in Conns :
        /\ (token[c] \notin Users \cup {""} /\ close_code[c] # 0) =>
              close_code[c] \in {4005, 1000}
        /\ (close_code[c] \in {4004, 4005, 4006} /\ session_id[c] = 0) =>
              /\ ~InRegistry(c)
              /\ \A k \in 1..Len(out[c]) : out[c][k].op # 0

\* run has left handle_events for good: no further frame is read.
PastFrames(c) ==
    \/ pc[c] \in {"exc", "finally", "done"}
    \/ pc[c] = "sleep" /\ after[c] # "try"

C22_ExceptionClosesResumably ==
    [][\A c \in Conns :
          (pc[c] = "exc" /\ exc[c] # "ConnectionClosed" /\ pc'[c] # "exc") =>
              /\ close_code'[c] = IF close_code[c] = 0 THEN 4000 ELSE close_code[c]
              /\ failed'[c] = failed[c]
              /\ session_id[c] # 0 => sessions' = MarkNone(session_id[c])]_vars

\* C23: when run has ended on a connection that completed a successful
\* IDENTIFY, the user's presence is invisible, or is as it was if the status
\* the user prefers is invisible.
C23_PresenceInvisibleAtEnd ==
    \A c \in Conns :
        (pc[c] = "done" /\ Identified(c)) =>
            IF SettingsStatus[user_id[c]] = "invisible"
            THEN presence[user_id[c]] = InitialPresence[user_id[c]]
            ELSE presence[user_id[c]] = "invisible"

\* A bound for the pending queues, below the number of events that can arrive.
QueueBound == MaxPending - 1

C25_FloodgatesFalseThenTrue ==
    \A c \in Conns :
        pc[c] # "idle" =>
            floodgates_open[c] = IF Identified(c) THEN "True" ELSE "False"

\* C26: routing an event never raises: every handler call of the bus
\* consumer returns and the consumer keeps running.
C26_RoutingNeverRaises ==
    /\ kafka = "running"
    /\ last # NoLast => last.raised = ""

\* C27: a server close of a connection that was never bound completes
\* without an exception and leaves the Registry's sessions, guild index and
\* pending queues as they were.
C27_UnboundCloseIsClean ==
    [][\A c \in Conns :
          (/\ session_id[c] = 0
           /\ close_code[c] = 0
           /\ close_code'[c] \in NonResumable \cup {4000}) =>
              /\ exc'[c] = exc[c]
              /\ failed'[c] = failed[c]
              /\ UNCHANGED <<sessions, managed_guilds, managed_guild_ids, queues>>]_vars

=============================================================================
